---- MODULE Spec2Model ----
(***************************************************************************)
(* Client-side order reconciliation of the Orders page                     *)
(* (frontend/uber-eats-lite-frontend/src/pages/Orders.tsx, lines 1-515):   *)
(* the order store and its merge function upsertOrderPure, the socket      *)
(* handler ws.onmessage with its throttled point fetch, the notification   *)
(* dedup pushDedupToast, the socket effect (connect, onopen, onclose, the  *)
(* reconnect timer, the cleanup), the collection fetch fetchOrders, and    *)
(* the user's handlers handleEdit, handleSubmit and handleDelete; and the  *)
(* axios instance of src/api/api.ts with its token-refresh interceptor.    *)
(*                                                                         *)
(* JavaScript values are encoded as follows.  A string-valued field holds  *)
(* a string, or one of the sentinels Undef (the value undefined), Null     *)
(* (the value null) and Absent (the object has no such key).  An items     *)
(* field is a record [isArray, arr]; a total is a record [t, v] whose tag  *)
(* t is "number", "NaN", "string" (a text Number() cannot parse),          *)
(* "undefined" or "absent".  An optional object (Order | null) is a set    *)
(* with no or one element.                                                 *)
(***************************************************************************)
EXTENDS Integers, Sequences, FiniteSets, TLC

VARIABLES
    orders,          \* useState<Order[]>: the order store, a sequence of records
    inflight,        \* ws.onmessage handlers suspended in `await fetchSingleOrder`
    lastFetchMs,     \* useRef Map orderId -> time of the last point fetch issued
    sessionStorage,  \* window.sessionStorage: toast key -> decimal text of a time
    now,             \* Date.now(), in ms
    toasts,          \* notifications emitted so far: key -> [count, lastAt]
    fetchLog,        \* point fetches issued so far: set of [id, at]
    nEvents,         \* number of socket messages and user actions so far
    loading,         \* the collection fetch issued on mount has not answered yet
    viewer,          \* the token's payload: [sub, isAdmin]
    calls,           \* PUT and DELETE requests of user actions that have not answered yet
    editingId,       \* useState<string | null>: the order the modal edits
    form,            \* useState: the modal's form, [user_id, items]
    socket,          \* readyState of wsRef.current: "connecting", "open", "closing", "closed"
    isStopped,       \* the socket effect's flag, set by its cleanup
    reconnectTimer,  \* the pending setTimeout(connect, 3000): no or one due time
    connects,        \* number of WebSockets constructed by connect() so far
    fetchOrdersCalls, \* number of calls of fetchOrders so far
    isRefreshing,    \* api.ts: a call of /auth/refresh is in flight
    failedQueue,     \* api.ts: the requests waiting for that refresh, in order of arrival
    requests,        \* the requests made through api: id -> [state, _retry, auth]
    localStorage,    \* window.localStorage: [token, refresh_token]
    location,        \* window.location.href
    last             \* the operation performed by the latest step

vars == <<orders, inflight, lastFetchMs, sessionStorage, now, toasts, fetchLog, nEvents,
          loading, viewer, calls, editingId, form, socket, isStopped, reconnectTimer,
          connects, fetchOrdersCalls, isRefreshing, failedQueue, requests, localStorage,
          location, last>>

\* the state of the socket effect, and the collection fetches issued
wsVars == <<socket, isStopped, reconnectTimer, connects, fetchOrdersCalls>>

\* the state of the modal and of the user's requests
uiVars == <<calls, editingId, form>>

\* the state of the axios instance and of what its interceptors write
apiVars == <<isRefreshing, failedQueue, requests, localStorage, location>>

\* the state of the Orders page
pageVars == <<orders, inflight, lastFetchMs, sessionStorage, now, toasts, fetchLog, nEvents,
              loading, viewer, calls, editingId, form, socket, isStopped, reconnectTimer,
              connects, fetchOrdersCalls, last>>

----------------------------------------------------------------------------
(* Bounds of the model *)

MaxEvents == 2
MaxTicks == 1
TickMs == 2500
MaxCalls == 4
MaxFineTicks == 7
MaxStorm == 3
MaxStormTicks == 3
MaxActions == 3
MaxKindEvents == 2
MaxSocketEvents == 1
MaxSocketTicks == 2
MaxMerges == 2
MaxRequests == 3
MaxViewerEvents == 2
FineTickMs == 1000
EpochMs == 10000

(* Program constants *)

FETCH_THROTTLE_MS == 2000
DEDUP_TTL_MS == 6000
RECONNECT_MS == 3000

----------------------------------------------------------------------------
(* JavaScript values *)

Undef == "undefined"
Null == "null"
Absent == "absent"

\* v ?? w
Nullish(v) == v \in {Undef, Null, Absent}
Coalesce(v, w) == IF Nullish(v) THEN w ELSE v

\* `...incoming` written after a key: the incoming key wins whenever the object has it
Spread(picked, inc) == IF inc = Absent THEN picked ELSE inc

\* truthiness of a string-valued field
Truthy(v) == ~Nullish(v) /\ v # ""

JsNum(n) == [t |-> "number", v |-> n]
JsNaN == [t |-> "NaN", v |-> 0]
JsText == [t |-> "string", v |-> 0]
JsUndef == [t |-> "undefined", v |-> 0]
JsAbsent == [t |-> "absent", v |-> 0]

NumNullish(x) == x.t \in {"undefined", "absent", "null"}
NumCoalesce(x, y) == IF NumNullish(x) THEN y ELSE x
NumSpread(picked, inc) == IF inc.t = "absent" THEN picked ELSE inc

\* Number(x): undefined and unparsable text give NaN
Number(x) ==
    CASE x.t = "number" -> x
      [] x.t = "null" -> JsNum(0)
      [] OTHER -> JsNaN

IsFiniteNumber(x) == x.t = "number"

Arr(s) == [isArray |-> TRUE, arr |-> s]
ItemsUndef == [isArray |-> FALSE, arr |-> <<>>]
ItemsAbsent == [isArray |-> FALSE, arr |-> <<"absent">>]
ItemsSpread(picked, inc) == IF inc = ItemsAbsent THEN picked ELSE inc

\* An optional object: {} is null, {o} is the object o
None == {}
Some(o) == {o}
The(opt) == CHOOSE o \in opt : TRUE

----------------------------------------------------------------------------
(* upsertOrderPure and its helpers *)

hasValue(v) == v # Undef /\ v # Null /\ v # Absent
hasNumValue(x) == ~NumNullish(x)

safeNumber(v, fallback) ==
    IF ~hasNumValue(v) THEN fallback
    ELSE IF IsFiniteNumber(Number(v)) THEN Number(v) ELSE fallback

statusRank(s) ==
    CASE s = "delivered" -> 5
      [] s = "assigned" -> 4
      [] s = "paid" -> 3
      [] s = "pending" -> 1
      [] OTHER -> 0

pickStatus(existingStatus, incomingStatus) ==
    IF ~hasValue(incomingStatus) THEN Coalesce(existingStatus, "pending")
    ELSE IF ~hasValue(existingStatus) THEN Coalesce(incomingStatus, "pending")
    ELSE IF statusRank(incomingStatus) < statusRank(existingStatus) THEN existingStatus
    ELSE incomingStatus

mergeItems(existingItems, incomingItems) ==
    IF incomingItems.isArray /\ Len(incomingItems.arr) > 0 THEN incomingItems
    ELSE IF incomingItems.isArray /\ Len(incomingItems.arr) = 0
         THEN (IF existingItems.isArray THEN existingItems ELSE Arr(<<>>))
    ELSE IF existingItems.isArray THEN existingItems ELSE Arr(<<>>)

\* existingOpt is None for a new entry
computeAssigning(existingOpt, incomingVal) ==
    LET exStatus == IF existingOpt = None THEN Undef ELSE The(existingOpt).status
        exPay == IF existingOpt = None THEN Undef ELSE The(existingOpt).payment_status
        exDriver == IF existingOpt = None THEN Undef ELSE The(existingOpt).driver_id
        status == Coalesce(incomingVal.status, exStatus)
        payment == Coalesce(incomingVal.payment_status, exPay)
        driver_id == Coalesce(incomingVal.driver_id, exDriver)
    IN  IF Truthy(driver_id) THEN FALSE
        ELSE IF status = "paid" \/ payment = "paid" THEN TRUE
        ELSE FALSE

\* the object spread `...incoming` that ends both literals of `merged`
spreadIncoming(picked, incoming) ==
    [ id |-> incoming.id,
      user_id |-> Spread(picked.user_id, incoming.user_id),
      items |-> ItemsSpread(picked.items, incoming.items),
      total |-> NumSpread(picked.total, incoming.total),
      status |-> Spread(picked.status, incoming.status),
      driver_id |-> Spread(picked.driver_id, incoming.driver_id),
      payment_status |-> Spread(picked.payment_status, incoming.payment_status),
      assigning |-> picked.assigning ]

mergedExisting(existing, incoming) ==
    spreadIncoming(
      [ id |-> incoming.id,
        user_id |-> IF hasValue(incoming.user_id) THEN incoming.user_id ELSE existing.user_id,
        items |-> mergeItems(existing.items, incoming.items),
        total |-> safeNumber(NumCoalesce(incoming.total, existing.total),
                             NumCoalesce(existing.total, JsNum(0))),
        status |-> pickStatus(existing.status, incoming.status),
        driver_id |-> IF hasValue(incoming.driver_id) THEN incoming.driver_id
                      ELSE Coalesce(existing.driver_id, Null),
        payment_status |-> IF hasValue(incoming.payment_status) THEN incoming.payment_status
                           ELSE Coalesce(existing.payment_status, "pending"),
        assigning |-> computeAssigning(Some(existing), incoming) ],
      incoming)

mergedNew(incoming) ==
    spreadIncoming(
      [ id |-> incoming.id,
        user_id |-> Coalesce(incoming.user_id, "unknown"),
        items |-> IF incoming.items.isArray THEN incoming.items ELSE Arr(<<>>),
        total |-> safeNumber(incoming.total, JsNum(0)),
        status |-> Coalesce(incoming.status, "pending"),
        driver_id |-> Coalesce(incoming.driver_id, Null),
        payment_status |-> Coalesce(incoming.payment_status, "pending"),
        assigning |-> computeAssigning(None, incoming) ],
      incoming)

Ids(list) == {list[i].id : i \in DOMAIN list}

\* a map that is not keyed by id: get answers the last entry, whatever its id
mapGetUnkeyed(prev, id) == IF prev = <<>> THEN None ELSE Some(prev[Len(prev)])

\* new Map(prev.map(p => [p.id, {...p}])).get(id): the last entry with that id
mapGet(prev, id) ==
    LET idx == {i \in DOMAIN prev : prev[i].id = id}
    IN  IF idx = {} THEN None
        ELSE Some(prev[CHOOSE i \in idx : \A j \in idx : j <= i])

\* a merge that puts a new order at the end of the list
upsertOrderPureAppend(prev, incoming) ==
    IF incoming.id \in Ids(prev)
    THEN [i \in DOMAIN prev |->
            IF prev[i].id = incoming.id THEN mergedExisting(prev[i], incoming) ELSE prev[i]]
    ELSE Append(prev, mergedNew(incoming))

\* a merge that never looks the id up: every incoming order is a new entry
upsertOrderPureUnkeyed(prev, incoming) == <<mergedNew(incoming)>> \o prev

upsertOrderPure(prev, incoming) ==
    LET existing == mapGet(prev, incoming.id)
        merged == IF existing # None THEN mergedExisting(The(existing), incoming)
                  ELSE mergedNew(incoming)
        newOnes == IF incoming.id \in Ids(prev) THEN <<>> ELSE <<merged>>
        orderedExisting ==
            [i \in DOMAIN prev |->
                IF prev[i].id = incoming.id THEN merged ELSE The(mapGet(prev, prev[i].id))]
    IN  newOnes \o orderedExisting

----------------------------------------------------------------------------
(* Time as text: now.toString() and Number(existing) of pushDedupToast *)

RECURSIVE toString(_)
toString(n) == IF n < 10 THEN <<n>> ELSE toString(n \div 10) \o <<n % 10>>

RECURSIVE parseNumber(_)
parseNumber(ds) ==
    IF ds = <<>> THEN 0
    ELSE 10 * parseNumber(SubSeq(ds, 1, Len(ds) - 1)) + ds[Len(ds)]

----------------------------------------------------------------------------
(* pushDedupToast *)

getItem(storage, key) == IF key \in DOMAIN storage THEN Some(storage[key]) ELSE None

\* `existing && now - Number(existing) < ttlMs`
dedupSuppressed(storage, key, t, ttlMs) ==
    LET existing == getItem(storage, key)
    IN  /\ existing # None
        /\ The(existing) # <<>>
        /\ t - parseNumber(The(existing)) < ttlMs

\* a sliding window: the stored time is refreshed by suppressed calls too
pushDedupStorageSliding(storage, key, t, ttlMs) == (key :> toString(t)) @@ storage

pushDedupStorage(storage, key, t, ttlMs) ==
    IF dedupSuppressed(storage, key, t, ttlMs) THEN storage
    ELSE (key :> toString(t)) @@ storage

\* toast.*(...): one more notification under `key`, emitted at time t
emit(log, key, t) ==
    IF key \in DOMAIN log
    THEN [log EXCEPT ![key] = [count |-> @.count + 1, lastAt |-> t]]
    ELSE (key :> [count |-> 1, lastAt |-> t]) @@ log

pushDedupToasts(log, storage, key, t, ttlMs) ==
    IF dedupSuppressed(storage, key, t, ttlMs) THEN log ELSE emit(log, key, t)

Count(log, key) == IF key \in DOMAIN log THEN log[key].count ELSE 0

----------------------------------------------------------------------------
(* The socket handler ws.onmessage *)

OrderIds == {"O1", "O2"}

normalizeEventType(raw) ==
    CASE raw \in {"order.created", "order_create"} -> "order.created"
      [] raw \in {"order.updated", "order_update"} -> "order.updated"
      [] raw \in {"payment.completed", "payment_complete", "paymentcompleted"} -> "payment.completed"
      [] raw \in {"driver.assigned", "driver_assigned"} -> "driver.assigned"
      [] raw = "driver.pending" -> "driver.pending"
      [] raw = "driver.failed" -> "driver.failed"
      [] raw \in {"delivery.completed", "delivery_complete", "order.delivered"} -> "delivery.completed"
      [] raw \in {"order.deleted", "order_deleted"} -> "order.deleted"
      [] OTHER -> raw

ToastKinds ==
    {"order.created", "payment.completed", "order.updated", "driver.assigned",
     "driver.pending", "driver.failed", "delivery.completed", "order.deleted"}

\* `payload.items === undefined || payload.status === undefined`
missingData(payload) == payload.items = ItemsUndef \/ payload.status = Undef

\* `missingData && now - lastFetch > FETCH_THROTTLE_MS`, lastFetch defaulting to 0
lastFetchOf(fetched, orderId) == IF orderId \in DOMAIN fetched THEN fetched[orderId] ELSE 0

\* the throttle with `>=` for `>`
shouldFetchAtWindow(payload, t, lastFetch) ==
    missingData(payload) /\ t - lastFetch >= FETCH_THROTTLE_MS

shouldFetch(payload, t, lastFetch) ==
    missingData(payload) /\ t - lastFetch > FETCH_THROTTLE_MS

\* fetchSingleOrder: resp is None when the GET fails, else the server's order
fetchSingleOrder(resp) ==
    IF resp = None THEN None
    ELSE LET o == The(resp)
         IN  Some([ id |-> o.id,
                    user_id |-> o.user_id,
                    items |-> IF o.items.isArray THEN o.items ELSE Arr(<<>>),
                    total |-> o.total,
                    status |-> o.status,
                    payment_status |-> o.payment_status,
                    driver_id |-> o.driver_id,
                    assigning |-> (o.status = "paid" \/ o.payment_status = "paid")
                                   /\ ~Truthy(o.driver_id) ])

\* fullOrder?.field
OptField(fullOrder, f) == IF fullOrder = None THEN Undef ELSE The(fullOrder)[f]

unifiedOrder(orderId, payload, fullOrder) ==
    [ id |-> orderId,
      user_id |-> Coalesce(payload.user_id, OptField(fullOrder, "user_id")),
      items |-> IF payload.items.isArray /\ Len(payload.items.arr) > 0 THEN payload.items
                ELSE IF fullOrder = None THEN Arr(<<>>)
                ELSE IF The(fullOrder).items.isArray THEN The(fullOrder).items
                ELSE Arr(<<>>),
      \* Number(...) is never nullish, so the two `??` after it are dead
      total |-> Number(NumCoalesce(payload.total, payload.total_amount)),
      status |-> Coalesce(payload.status, Coalesce(OptField(fullOrder, "status"), "pending")),
      payment_status |-> Coalesce(payload.payment_status,
                                  Coalesce(OptField(fullOrder, "payment_status"), "pending")),
      driver_id |-> Coalesce(payload.driver_id, Coalesce(OptField(fullOrder, "driver_id"), Null)) ]

\* `prev.filter((o) => o.id !== orderId)`
removeOrder(prev, orderId) == SelectSeq(prev, LAMBDA o : o.id # orderId)

\* the handler returning before its switch when the point fetch gave nothing
onmessageStoreEarlyReturn(prev, eventType, orderId, payload, fullOrder) ==
    IF missingData(payload) /\ fullOrder = None THEN prev
    ELSE LET upserted == upsertOrderPure(prev, unifiedOrder(orderId, payload, fullOrder))
         IN  IF eventType = "order.deleted" THEN removeOrder(upserted, orderId) ELSE upserted

\* steps 5-7 of the handler, as one store update
onmessageStore(prev, eventType, orderId, payload, fullOrder) ==
    LET upserted == upsertOrderPure(prev, unifiedOrder(orderId, payload, fullOrder))
    IN  IF eventType = "order.deleted" THEN removeOrder(upserted, orderId) ELSE upserted

toastKey(orderId, eventType) == "WS:" \o orderId \o ":" \o eventType

\* the rest of the handler once fullOrder is known
Finish(op, eventType, orderId, payload, fullOrder, fetch, wasDeleted) ==
    LET key == toastKey(orderId, eventType)
        toasting == eventType \in ToastKinds
    IN  /\ orders' = onmessageStore(orders, eventType, orderId, payload, fullOrder)
        /\ sessionStorage' = IF toasting
                             THEN pushDedupStorage(sessionStorage, key, now, DEDUP_TTL_MS)
                             ELSE sessionStorage
        /\ toasts' = IF toasting
                     THEN pushDedupToasts(toasts, sessionStorage, key, now, DEDUP_TTL_MS)
                     ELSE toasts
        /\ last' = [ op |-> op, id |-> orderId, eventType |-> eventType, payload |-> payload,
                     fetch |-> fetch, wasDeleted |-> wasDeleted,
                     present |-> orderId \in Ids(orders),
                     emitted |-> toasting /\ ~dedupSuppressed(sessionStorage, key, now, DEDUP_TTL_MS) ]

NoPayload ==
    [ user_id |-> Undef, items |-> ItemsUndef, total |-> JsUndef, total_amount |-> JsUndef,
      status |-> Undef, payment_status |-> Undef, driver_id |-> Undef ]

Dropped(orderId, eventType) ==
    [ op |-> "ws.drop", id |-> orderId, eventType |-> eventType, payload |-> NoPayload,
      fetch |-> "none", wasDeleted |-> FALSE, present |-> FALSE, emitted |-> FALSE ]

\* a handler that finishes marks the handlers still suspended for the same order:
\* deleted when it removed the order, not deleted when it put the order (back) in
markInflight(hs, orderId, eventType) ==
    {IF h.orderId = orderId THEN [h EXCEPT !.deleted = (eventType = "order.deleted")] ELSE h
       : h \in hs}

\* ws.onmessage up to its `await`, or to its end when it does not fetch
WsMessage(rawType, orderId, payload) ==
    LET eventType == normalizeEventType(rawType)
    IN  /\ socket = "open"
        /\ nEvents' = nEvents + 1
        /\ UNCHANGED <<now, loading, viewer, apiVars>>
        /\ UNCHANGED uiVars
        /\ UNCHANGED wsVars
        /\ IF eventType = "" \/ ~Truthy(orderId)
           THEN /\ last' = Dropped(orderId, eventType)
                /\ UNCHANGED <<orders, inflight, lastFetchMs, sessionStorage, toasts, fetchLog>>
           ELSE IF shouldFetch(payload, now, lastFetchOf(lastFetchMs, orderId))
           THEN /\ lastFetchMs' = (orderId :> now) @@ lastFetchMs
                /\ fetchLog' = fetchLog \cup {[id |-> orderId, at |-> now]}
                /\ inflight' = inflight \cup
                      {[ at |-> now, orderId |-> orderId, eventType |-> eventType,
                         payload |-> payload, deleted |-> FALSE ]}
                /\ last' = [ op |-> "ws.await", id |-> orderId, eventType |-> eventType,
                             payload |-> payload, fetch |-> "issued", wasDeleted |-> FALSE,
                             present |-> orderId \in Ids(orders), emitted |-> FALSE ]
                /\ UNCHANGED <<orders, sessionStorage, toasts>>
           ELSE /\ Finish("ws.done", eventType, orderId, payload, None, "none", FALSE)
                /\ inflight' = markInflight(inflight, orderId, eventType)
                /\ UNCHANGED <<lastFetchMs, fetchLog>>

\* the handler h resumed with the point fetch's outcome
WsFetchDone(h, resp) ==
    /\ h \in inflight
    /\ Finish("ws.done", h.eventType, h.orderId, h.payload, fetchSingleOrder(resp),
              IF resp = None THEN "failed" ELSE "ok", h.deleted)
    /\ inflight' = markInflight(inflight \ {h}, h.orderId, h.eventType)
    /\ UNCHANGED <<lastFetchMs, fetchLog, now, nEvents, loading, viewer, apiVars>>
    /\ UNCHANGED uiVars
    /\ UNCHANGED wsVars

----------------------------------------------------------------------------
(* The socket effect: connect, ws.onopen, ws.onclose, the reconnect timer, *)
(* the effect's cleanup                                                    *)

SocketStep(op) ==
    [ op |-> op, id |-> Undef, eventType |-> "", payload |-> NoPayload,
      fetch |-> "none", wasDeleted |-> FALSE, present |-> FALSE, emitted |-> FALSE ]

\* ws.onopen: it logs, and nothing else
WsOpen ==
    /\ socket = "connecting"
    /\ socket' = "open"
    /\ last' = SocketStep("ws.open")
    /\ UNCHANGED <<orders, inflight, lastFetchMs, sessionStorage, now, toasts, fetchLog,
                   nEvents, loading, viewer, apiVars, isStopped, reconnectTimer, connects,
                   fetchOrdersCalls>>
    /\ UNCHANGED uiVars

\* an onclose that arms the timer only for a socket that had been open
WsCloseOpenOnly ==
    /\ socket \in {"connecting", "open", "closing"}
    /\ socket' = "closed"
    /\ reconnectTimer' = IF ~isStopped /\ socket = "open" THEN Some(now + RECONNECT_MS)
                          ELSE reconnectTimer
    /\ last' = SocketStep("ws.close")
    /\ UNCHANGED <<orders, inflight, lastFetchMs, sessionStorage, now, toasts, fetchLog,
                   nEvents, loading, viewer, apiVars, isStopped, connects, fetchOrdersCalls>>
    /\ UNCHANGED uiVars

\* ws.onclose, for a socket that failed to open, that was open, or that the cleanup
\* has asked to close
WsClose ==
    /\ socket \in {"connecting", "open", "closing"}
    /\ socket' = "closed"
    /\ reconnectTimer' = IF ~isStopped THEN Some(now + RECONNECT_MS) ELSE reconnectTimer
    /\ last' = SocketStep("ws.close")
    /\ UNCHANGED <<orders, inflight, lastFetchMs, sessionStorage, now, toasts, fetchLog,
                   nEvents, loading, viewer, apiVars, isStopped, connects, fetchOrdersCalls>>
    /\ UNCHANGED uiVars

\* the reconnect timer fires and runs connect()
Reconnect ==
    /\ reconnectTimer # None
    /\ now >= The(reconnectTimer)
    /\ reconnectTimer' = None
    /\ IF isStopped
       THEN UNCHANGED <<socket, connects>>
       ELSE socket' = "connecting" /\ connects' = connects + 1
    /\ last' = SocketStep("ws.connect")
    /\ UNCHANGED <<orders, inflight, lastFetchMs, sessionStorage, now, toasts, fetchLog,
                   nEvents, loading, viewer, apiVars, isStopped, fetchOrdersCalls>>
    /\ UNCHANGED uiVars

\* the effect's cleanup: the flag, wsRef.current?.close(), clearTimeout; the socket's
\* onclose comes later
Cleanup ==
    /\ ~isStopped
    /\ isStopped' = TRUE
    /\ socket' = IF socket \in {"connecting", "open"} THEN "closing" ELSE socket
    /\ reconnectTimer' = None
    /\ last' = SocketStep("ws.cleanup")
    /\ UNCHANGED <<orders, inflight, lastFetchMs, sessionStorage, now, toasts, fetchLog,
                   nEvents, loading, viewer, apiVars, connects, fetchOrdersCalls>>
    /\ UNCHANGED uiVars

----------------------------------------------------------------------------
(* handleSubmit, create branch *)

MENU_ITEMS ==
    << [name |-> "Burger", price |-> 8], [name |-> "Fries", price |-> 4],
       [name |-> "Coke", price |-> 3], [name |-> "Pizza", price |-> 12],
       [name |-> "Salad", price |-> 6] >>

Includes(items, name) == \E i \in DOMAIN items : items[i] = name

RECURSIVE SumPrices(_, _)
SumPrices(menu, items) ==
    IF menu = <<>> THEN 0
    ELSE (IF Includes(items, Head(menu).name) THEN Head(menu).price ELSE 0)
         + SumPrices(Tail(menu), items)

formTotal(f) == SumPrices(MENU_ITEMS, f.items)

createdKey(id) == id \o ":created"

\* the order the server answers a POST with
createdOrder(id, f) ==
    [ id |-> id, user_id |-> f.user_id, items |-> Arr(f.items),
      total |-> JsNum(formTotal(f)), status |-> "pending",
      payment_status |-> "pending", driver_id |-> Null ]

\* the form as the page resets it: { user_id: currentUserId ?? "", items: [] }
emptyForm(who) == [user_id |-> Coalesce(who.sub, ""), items |-> <<>>]

UserAction(op, id) ==
    [ op |-> op, id |-> id, eventType |-> "", payload |-> NoPayload,
      fetch |-> "none", wasDeleted |-> FALSE, present |-> FALSE, emitted |-> FALSE ]

\* handleSubmit with editingId = null; posted is None when the POST fails
SubmitCreate(f, id, posted) ==
    /\ editingId = Null
    /\ nEvents' = nEvents + 1
    /\ UNCHANGED <<lastFetchMs, fetchLog, now, loading, viewer, apiVars>>
    /\ UNCHANGED uiVars
    /\ UNCHANGED wsVars
    /\ IF ~Truthy(f.user_id) \/ Len(f.items) = 0
       THEN /\ toasts' = emit(toasts, "error:form", now)
            /\ last' = UserAction("create.invalid", id)
            /\ UNCHANGED <<orders, inflight, sessionStorage>>
       ELSE IF ~posted
       THEN /\ toasts' = emit(toasts, "error:create", now)
            /\ last' = UserAction("create.failed", id)
            /\ UNCHANGED <<orders, inflight, sessionStorage>>
       ELSE /\ orders' = upsertOrderPure(orders, createdOrder(id, f))
            /\ sessionStorage' = pushDedupStorage(sessionStorage, createdKey(id), now, DEDUP_TTL_MS)
            /\ toasts' = pushDedupToasts(toasts, sessionStorage, createdKey(id), now, DEDUP_TTL_MS)
            /\ inflight' = markInflight(inflight, id, "")
            /\ last' = [UserAction("create", id) EXCEPT
                          !.emitted = ~dedupSuppressed(sessionStorage, createdKey(id), now, DEDUP_TTL_MS)]

----------------------------------------------------------------------------
(* handleEdit, the edit branch of handleSubmit, handleDelete *)

\* handleEdit(order), order being the store's entry the card shows
handleEdit(id) ==
    /\ id \in Ids(orders)
    /\ nEvents' = nEvents + 1
    /\ UNCHANGED wsVars
    /\ UNCHANGED <<orders, inflight, lastFetchMs, sessionStorage, now, fetchLog, loading,
                   viewer, apiVars, calls>>
    /\ LET order == The(mapGet(orders, id))
       IN  IF ~viewer.isAdmin /\ order.user_id # viewer.sub
           THEN /\ toasts' = emit(toasts, "error:edit.owner", now)
                /\ last' = UserAction("edit.denied", id)
                /\ UNCHANGED <<editingId, form>>
           ELSE /\ form' = [ user_id |-> order.user_id,
                             items |-> IF order.items.isArray THEN order.items.arr ELSE <<>> ]
                /\ editingId' = id
                /\ last' = UserAction("edit.open", id)
                /\ UNCHANGED toasts

\* the modal's item buttons: the user toggles one menu item of the form
toggleItem(items, name) ==
    IF Includes(items, name) THEN SelectSeq(items, LAMBDA i : i # name)
    ELSE Append(items, name)

setForm(name) ==
    /\ form' = [form EXCEPT !.items = toggleItem(@, name)]
    /\ last' = UserAction("form", editingId)
    /\ UNCHANGED wsVars
    /\ UNCHANGED <<orders, inflight, lastFetchMs, sessionStorage, now, toasts, fetchLog,
                   nEvents, loading, viewer, apiVars, calls, editingId>>

\* handleSubmit with an editingId, up to `await api.put`
SubmitEdit ==
    /\ editingId # Null
    \* the modal's button is disabled while a submit is in flight (loading)
    /\ ~\E c \in calls : c.method = "put"
    /\ nEvents' = nEvents + 1
    /\ UNCHANGED wsVars
    /\ UNCHANGED <<orders, inflight, lastFetchMs, sessionStorage, now, fetchLog, loading,
                   viewer, apiVars, editingId, form>>
    /\ IF ~Truthy(form.user_id) \/ Len(form.items) = 0
       THEN /\ toasts' = emit(toasts, "error:form", now)
            /\ last' = UserAction("edit.invalid", editingId)
            /\ UNCHANGED calls
       ELSE /\ calls' = calls \cup {[method |-> "put", id |-> editingId, n |-> nEvents]}
            /\ last' = UserAction("edit.sent", editingId)
            /\ UNCHANGED toasts

\* `prev.map((o) => (o.id === editingId ? { ...res.data, items: ... } : o))`.
\* The response has no assigning key; the entry's assigning is then undefined, which
\* every reader of the flag takes as false.
replaceOrder(prev, id, data) ==
    [ i \in DOMAIN prev |->
        IF prev[i].id = id
        THEN [ id |-> data.id, user_id |-> data.user_id,
               items |-> IF data.items.isArray THEN data.items ELSE Arr(<<>>),
               total |-> data.total, status |-> data.status, driver_id |-> data.driver_id,
               payment_status |-> data.payment_status, assigning |-> FALSE ]
        ELSE prev[i] ]

\* handleSubmit resumed with the PUT's outcome; resp is None when the PUT fails
PutDone(c, resp) ==
    /\ c \in calls
    /\ c.method = "put"
    /\ calls' = calls \ {c}
    /\ UNCHANGED wsVars
    /\ UNCHANGED <<inflight, lastFetchMs, sessionStorage, now, fetchLog, nEvents, loading, viewer, apiVars>>
    /\ IF resp = None
       THEN /\ toasts' = emit(toasts, "error:update", now)
            /\ last' = UserAction("edit.failed", c.id)
            /\ UNCHANGED <<orders, editingId, form>>
       ELSE /\ orders' = replaceOrder(orders, c.id, The(resp))
            /\ toasts' = emit(toasts, "success:update", now)
            /\ editingId' = Null
            /\ form' = emptyForm(viewer)
            /\ last' = UserAction("edit", c.id)

\* handleDelete(order.id, order.user_id) from the card of a stored order, up to
\* `await api.delete`; confirmed is the answer to confirm()
handleDelete(id, confirmed) ==
    /\ id \in Ids(orders)
    /\ nEvents' = nEvents + 1
    /\ UNCHANGED wsVars
    /\ UNCHANGED <<orders, inflight, lastFetchMs, sessionStorage, now, fetchLog, loading,
                   viewer, apiVars, editingId, form>>
    /\ LET ownerId == The(mapGet(orders, id)).user_id
       IN  IF ~viewer.isAdmin /\ ownerId # viewer.sub
           THEN /\ toasts' = emit(toasts, "error:delete.owner", now)
                /\ last' = UserAction("delete.denied", id)
                /\ UNCHANGED calls
           ELSE IF ~confirmed
           THEN /\ last' = UserAction("delete.cancelled", id)
                /\ UNCHANGED <<calls, toasts>>
           ELSE /\ calls' = calls \cup {[method |-> "delete", id |-> id, n |-> nEvents]}
                /\ last' = UserAction("delete.sent", id)
                /\ UNCHANGED toasts

\* an optimistic delete: the order is removed whatever the DELETE's outcome
DeleteDoneOptimistic(c, ok) ==
    /\ c \in calls
    /\ c.method = "delete"
    /\ calls' = calls \ {c}
    /\ orders' = removeOrder(orders, c.id)
    /\ toasts' = emit(toasts, IF ok THEN "success:delete" ELSE "error:delete", now)
    /\ last' = UserAction(IF ok THEN "delete" ELSE "delete.failed", c.id)
    /\ UNCHANGED wsVars
    /\ UNCHANGED <<inflight, lastFetchMs, sessionStorage, now, fetchLog, nEvents, loading,
                   viewer, apiVars, editingId, form>>

\* handleDelete resumed with the DELETE's outcome
DeleteDone(c, ok) ==
    /\ c \in calls
    /\ c.method = "delete"
    /\ calls' = calls \ {c}
    /\ UNCHANGED wsVars
    /\ UNCHANGED <<inflight, lastFetchMs, sessionStorage, now, fetchLog, nEvents, loading,
                   viewer, apiVars, editingId, form>>
    /\ IF ok
       THEN /\ orders' = removeOrder(orders, c.id)
            /\ toasts' = emit(toasts, "success:delete", now)
            /\ last' = UserAction("delete", c.id)
       ELSE /\ toasts' = emit(toasts, "error:delete", now)
            /\ last' = UserAction("delete.failed", c.id)
            /\ UNCHANGED orders

----------------------------------------------------------------------------
(* The environment: socket messages, server answers, the clock *)

Payload(u, it, tot, st, pay, drv) ==
    [ user_id |-> u, items |-> it, total |-> tot, total_amount |-> JsUndef,
      status |-> st, payment_status |-> pay, driver_id |-> drv ]

IdOnly == NoPayload
StatusEmptyItems == Payload(Undef, Arr(<<>>), JsUndef, "pending", Undef, Undef)
FullPaid == Payload("u1", Arr(<<"Pizza">>), JsNum(12), "paid", "paid", Undef)

WsPayloads == {IdOnly, StatusEmptyItems, FullPaid}

WsRawTypes == {"order_update", "order.deleted"}

\* an order as the orders service answers it
ServerOrder(id, st) ==
    [ id |-> id, user_id |-> "u1", items |-> Arr(<<"Burger">>), total |-> JsNum(8),
      status |-> st,
      payment_status |-> IF st = "pending" THEN "pending" ELSE "paid",
      driver_id |-> IF st \in {"assigned", "delivered"} THEN "d1" ELSE Null ]

\* what GET /orders/orders/{id} can answer: a failure, or the order at a stage of its life
ServerAnswers(id) == {None} \cup {Some(ServerOrder(id, st)) : st \in {"paid", "assigned"}}

\* what GET /orders/orders can answer, oldest order first; None is a failure
ServerLists ==
    { None, Some(<<>>), Some(<<ServerOrder("O1", "pending")>>),
      Some(<<ServerOrder("O1", "delivered"), ServerOrder("O2", "paid")>>) }

CreateForms ==
    { [user_id |-> "u1", items |-> <<"Burger", "Coke">>],
      [user_id |-> "u1", items |-> <<>>] }

NeverCreated(id) == createdKey(id) \notin DOMAIN sessionStorage

TickBy(step, maxTicks) ==
    /\ now + step <= EpochMs + step * maxTicks
    /\ now' = now + step
    /\ last' = UserAction("tick", Undef)
    /\ UNCHANGED <<orders, inflight, lastFetchMs, sessionStorage, toasts, fetchLog, nEvents,
                   loading, viewer, apiVars>>
    /\ UNCHANGED uiVars
    /\ UNCHANGED wsVars

----------------------------------------------------------------------------
(* fetchOrders, run once on mount *)

Reverse(list) == [i \in DOMAIN list |-> list[Len(list) + 1 - i]]

annotate(o) ==
    [ id |-> o.id, user_id |-> o.user_id,
      items |-> IF o.items.isArray THEN o.items ELSE Arr(<<>>),
      total |-> o.total, status |-> o.status, driver_id |-> o.driver_id,
      payment_status |-> o.payment_status,
      assigning |-> (o.status = "paid" \/ o.payment_status = "paid") /\ ~Truthy(o.driver_id) ]

fetchOrdersStore(resp, who) ==
    IF resp = None THEN <<>>
    ELSE LET fetched == IF ~who.isAdmin /\ Truthy(who.sub)
                        THEN SelectSeq(The(resp), LAMBDA o : o.user_id = who.sub)
                        ELSE The(resp)
         IN  Reverse([i \in DOMAIN fetched |-> annotate(fetched[i])])

FetchOrdersDone(resp) ==
    /\ loading
    /\ loading' = FALSE
    /\ orders' = fetchOrdersStore(resp, viewer)
    /\ toasts' = IF resp = None THEN emit(toasts, "error:fetch", now) ELSE toasts
    /\ inflight' = {[h EXCEPT !.deleted = FALSE] : h \in inflight}
    /\ last' = UserAction(IF resp = None THEN "load.failed" ELSE "load", Undef)
    /\ UNCHANGED <<lastFetchMs, sessionStorage, now, fetchLog, nEvents, viewer, apiVars>>
    /\ UNCHANGED uiVars
    /\ UNCHANGED wsVars

----------------------------------------------------------------------------
(* api.ts: the axios instance, its request interceptor and its 401 interceptor *)

ReqIds == 1..MaxRequests

\* the tokens the login stored; /auth/refresh answers with a newer access token
ApiInit ==
    /\ isRefreshing = FALSE
    /\ failedQueue = <<>>
    /\ requests = [r \in ReqIds |-> [state |-> "idle", retry |-> FALSE, auth |-> Null]]
    /\ localStorage = [token |-> "t0", refresh_token |-> "r0"]
    /\ location = "/orders"

Queued(queue) == {queue[i] : i \in DOMAIN queue}

\* api(config): the request interceptor writes the stored token in the header
send(req, storage) == [req EXCEPT !.state = "sent", !.auth = storage.token]

\* processQueue(error, token): every waiting promise is rejected, or resolved with the
\* token, and its then-callback calls api(originalRequest)
processQueue(reqs, queue, error, storage) ==
    [r \in ReqIds |->
        IF r \notin Queued(queue) THEN reqs[r]
        ELSE IF error THEN [reqs[r] EXCEPT !.state = "rejected"]
        ELSE send(reqs[r], storage)]

\* lines 93-95: a 401 that was not retried removes the token and goes to the login page
fallbackStorage(status, storage) ==
    IF status = 401 THEN [storage EXCEPT !.token = Null] ELSE storage

fallbackLocation(status, loc) == IF status = 401 THEN "/" ELSE loc

\* a call through api, e.g. api.get("/orders/orders")
ApiCall(r) ==
    /\ requests[r].state = "idle"
    /\ requests' = [requests EXCEPT ![r] = send(@, localStorage)]
    /\ UNCHANGED <<isRefreshing, failedQueue, localStorage, location>>
    /\ UNCHANGED pageVars

\* the response interceptor, up to its first await
ApiAnswer(r, status) ==
    /\ requests[r].state = "sent"
    /\ IF status = 200
       THEN /\ requests' = [requests EXCEPT ![r].state = "resolved"]
            /\ UNCHANGED <<isRefreshing, failedQueue, localStorage, location>>
       ELSE IF status = 401 /\ ~requests[r].retry
       THEN IF isRefreshing
            THEN /\ failedQueue' = Append(failedQueue, r)
                 /\ requests' = [requests EXCEPT ![r].state = "queued"]
                 /\ UNCHANGED <<isRefreshing, localStorage, location>>
            ELSE IF localStorage.refresh_token = Null
            THEN \* throw, catch, finally, fallback
                 /\ requests' =
                        [processQueue(requests, failedQueue, TRUE, localStorage)
                            EXCEPT ![r] = [@ EXCEPT !.state = "rejected", !.retry = TRUE]]
                 /\ failedQueue' = <<>>
                 /\ localStorage' = [token |-> Null, refresh_token |-> Null]
                 /\ location' = "/"
                 /\ isRefreshing' = FALSE
            ELSE /\ requests' = [requests EXCEPT ![r] = [@ EXCEPT !.state = "refreshing",
                                                                    !.retry = TRUE]]
                 /\ isRefreshing' = TRUE
                 /\ UNCHANGED <<failedQueue, localStorage, location>>
       ELSE /\ requests' = [requests EXCEPT ![r].state = "rejected"]
            /\ localStorage' = fallbackStorage(status, localStorage)
            /\ location' = fallbackLocation(status, location)
            /\ UNCHANGED <<isRefreshing, failedQueue>>
    /\ UNCHANGED pageVars

\* the response interceptor after `await axios.post(.../auth/refresh)`: the call
\* answered with an access_token, answered without one, or failed
RefreshDone(r, outcome) ==
    /\ requests[r].state = "refreshing"
    /\ isRefreshing' = FALSE
    /\ CASE outcome = "token" ->
              LET stored == [localStorage EXCEPT !.token = "t1"] IN
              /\ localStorage' = stored
              /\ requests' = [processQueue(requests, failedQueue, FALSE, stored)
                                 EXCEPT ![r] = send(@, stored)]
              /\ failedQueue' = <<>>
              /\ UNCHANGED location
         [] outcome = "notoken" ->
              /\ requests' = [requests EXCEPT ![r].state = "rejected"]
              /\ localStorage' = fallbackStorage(401, localStorage)
              /\ location' = fallbackLocation(401, location)
              /\ UNCHANGED failedQueue
         [] outcome = "fail" ->
              /\ requests' = [processQueue(requests, failedQueue, TRUE, localStorage)
                                 EXCEPT ![r].state = "rejected"]
              /\ failedQueue' = <<>>
              /\ localStorage' = [token |-> Null, refresh_token |-> Null]
              /\ location' = "/"
    /\ UNCHANGED pageVars

----------------------------------------------------------------------------
(* The Orders page: socket events, point fetches, the collection fetch *)

InitWith(who) ==
    /\ orders = <<>>
    /\ inflight = {}
    /\ lastFetchMs = <<>>
    /\ sessionStorage = <<>>
    /\ now = EpochMs
    /\ toasts = <<>>
    /\ fetchLog = {}
    /\ nEvents = 0
    /\ loading = TRUE
    /\ viewer = who
    /\ calls = {}
    /\ editingId = Null
    /\ form = emptyForm(who)
    /\ socket = "connecting"
    /\ isStopped = FALSE
    /\ reconnectTimer = None
    /\ connects = 1
    /\ fetchOrdersCalls = 1
    /\ ApiInit
    /\ last = UserAction("init", Undef)

Init == InitWith([sub |-> "u1", isAdmin |-> FALSE])

Tick == TickBy(TickMs, MaxTicks)

Load == \E resp \in ServerLists : FetchOrdersDone(resp)

\* a serial queue: no message is handled while a handler is suspended in its fetch
ReceiveSerial ==
    /\ inflight = {}
    /\ nEvents < MaxEvents
    /\ \E raw \in WsRawTypes, id \in OrderIds, p \in WsPayloads : WsMessage(raw, id, p)

Receive ==
    /\ nEvents < MaxEvents
    /\ \E raw \in WsRawTypes, id \in OrderIds, p \in WsPayloads : WsMessage(raw, id, p)

Resume == \E h \in inflight : \E resp \in ServerAnswers(h.orderId) : WsFetchDone(h, resp)

Open == WsOpen

Next == Tick \/ Load \/ Open \/ Receive \/ Resume

Spec == Init /\ [][Next]_vars

----------------------------------------------------------------------------
(* Notifications: order creation and socket events for one order, on a     *)
(* clock fine enough to fall on either side of the dedup window            *)

NotifyTick == TickBy(FineTickMs, MaxFineTicks)

Notify ==
    /\ nEvents < MaxCalls
    /\ \E raw \in {"order.created", "payment.completed"} : WsMessage(raw, "O1", FullPaid)

Create ==
    /\ nEvents < MaxCalls
    /\ \E f \in CreateForms, posted \in BOOLEAN :
          NeverCreated("O1") /\ SubmitCreate(f, "O1", posted)

NextNotify == NotifyTick \/ Open \/ Notify \/ Create

SpecNotify == Init /\ [][NextNotify]_vars

----------------------------------------------------------------------------
(* An event storm: id-only events for two orders, point fetches that stay  *)
(* in flight, on a clock fine enough to fall on the throttle window's edge *)

StormTick == TickBy(FineTickMs, MaxStormTicks)

Storm ==
    /\ nEvents < MaxStorm
    /\ \E id \in OrderIds, p \in {IdOnly, FullPaid} : WsMessage("order_update", id, p)

Reply == \E h \in inflight : \E resp \in {None, Some(ServerOrder(h.orderId, "paid"))} : WsFetchDone(h, resp)

NextStorm == StormTick \/ Open \/ Storm \/ Reply

SpecStorm == Init /\ [][NextStorm]_vars

----------------------------------------------------------------------------
(* The page in use: the collection fetch, socket events, and the user's    *)
(* create, edit and delete, with their requests in flight                  *)

\* the Edit button of a card is disabled for an assigned or delivered order
EditEnabled(id) ==
    id \in Ids(orders) /\ The(mapGet(orders, id)).status \notin {"assigned", "delivered"}

\* what PUT /orders/orders/{id} can answer: a failure, or the order as the server has it
PutAnswers(id) == {None} \cup {Some(ServerOrder(id, st)) : st \in {"pending", "paid"}}

PageEvent ==
    /\ nEvents < MaxActions
    /\ \E raw \in WsRawTypes, id \in OrderIds, p \in {IdOnly, FullPaid} : WsMessage(raw, id, p)

PageCreate ==
    /\ nEvents < MaxActions
    /\ \E posted \in BOOLEAN :
          NeverCreated("O2") /\ SubmitCreate([user_id |-> "u1", items |-> <<"Burger">>], "O2", posted)

PageEdit ==
    /\ nEvents < MaxActions
    /\ \E id \in OrderIds : EditEnabled(id) /\ handleEdit(id)

PageForm == editingId # Null /\ form.items # <<>> /\ setForm(Head(form.items))

PageSubmit == nEvents < MaxActions /\ SubmitEdit

PagePut == \E c \in calls : \E resp \in PutAnswers(c.id) : PutDone(c, resp)

PageDelete ==
    /\ nEvents < MaxActions
    /\ \E id \in OrderIds, confirmed \in BOOLEAN : handleDelete(id, confirmed)

PageDeleted == \E c \in calls : \E ok \in BOOLEAN : DeleteDone(c, ok)

NextPage ==
    \/ Load \/ Open \/ PageEvent \/ Resume \/ PageCreate \/ PageEdit \/ PageForm \/ PageSubmit
    \/ PagePut \/ PageDelete \/ PageDeleted

SpecPage == Init /\ [][NextPage]_vars

----------------------------------------------------------------------------
(* Events of every kind for one order: the recognized lifecycle kinds and  *)
(* a kind the page does not know                                           *)

KindRawTypes ==
    {"payment.completed", "driver.assigned", "delivery.completed", "driver.pending",
     "driver.failed", "order.archived"}

KindEvent ==
    /\ nEvents < MaxKindEvents
    /\ \E raw \in KindRawTypes, p \in {IdOnly, FullPaid} : WsMessage(raw, "O1", p)

NextKinds == Load \/ Open \/ KindEvent \/ Resume

SpecKinds == Init /\ [][NextKinds]_vars

----------------------------------------------------------------------------
(* The socket's life: it opens, closes, is reconnected by the timer, and   *)
(* is stopped by the effect's cleanup                                      *)

SocketTick == TickBy(RECONNECT_MS, MaxSocketTicks)

Close == WsClose

Retry == Reconnect

Unmount == Cleanup

Deliver ==
    /\ nEvents < MaxSocketEvents
    /\ \E p \in {IdOnly, FullPaid} : WsMessage("order_update", "O1", p)

\* React drops the state updates of a component that is unmounted
Mounted == ~isStopped

SocketLoad == Mounted /\ Load

SocketResume == Mounted /\ Resume

NextSocket ==
    \/ SocketTick \/ Open \/ Close \/ Retry \/ Unmount \/ Deliver \/ SocketLoad
    \/ SocketResume

SpecSocket == Init /\ [][NextSocket]_vars

\* the socket's life under the browser's scheduling: time passes and a due timer
\* runs; a close comes early enough for its timer to fall inside the clock's range
CloseInTime == now + RECONNECT_MS <= EpochMs + RECONNECT_MS * MaxSocketTicks /\ WsClose

NextSocketLive ==
    \/ SocketTick \/ Open \/ CloseInTime \/ Retry \/ Unmount \/ Deliver \/ SocketLoad
    \/ SocketResume

SpecSocketLive ==
    Init /\ [][NextSocketLive]_vars /\ WF_vars(SocketTick) /\ WF_vars(Retry)

----------------------------------------------------------------------------
(* The merge on its own: upsertOrderPure applied to the stores the         *)
(* collection fetch can install and the orders the handler can build       *)

MergeIds == OrderIds \cup {"O3"}

\* the partial orders the socket handler can hand to the merge for order id
Incomings(id) ==
    UNION { { unifiedOrder(id, p, full) :
                full \in IF missingData(p)
                         THEN {fetchSingleOrder(r) : r \in ServerAnswers(id)}
                         ELSE {None} } : p \in WsPayloads }

InitMerge ==
    /\ orders \in {fetchOrdersStore(resp, [sub |-> "u1", isAdmin |-> FALSE]) : resp \in ServerLists}
    /\ inflight = {}
    /\ lastFetchMs = <<>>
    /\ sessionStorage = <<>>
    /\ now = EpochMs
    /\ toasts = <<>>
    /\ fetchLog = {}
    /\ nEvents = 0
    /\ loading = FALSE
    /\ viewer = [sub |-> "u1", isAdmin |-> FALSE]
    /\ calls = {}
    /\ editingId = Null
    /\ form = emptyForm(viewer)
    /\ socket = "open"
    /\ isStopped = FALSE
    /\ reconnectTimer = None
    /\ connects = 1
    /\ fetchOrdersCalls = 1
    /\ ApiInit
    /\ last = UserAction("init", Undef)

\* setOrders((prev) => upsertOrderPure(prev, incoming))
Merge(incoming) ==
    /\ orders' = upsertOrderPure(orders, incoming)
    /\ nEvents' = nEvents + 1
    /\ last' = [UserAction("merge", incoming.id) EXCEPT !.present = incoming.id \in Ids(orders)]
    /\ UNCHANGED <<inflight, lastFetchMs, sessionStorage, now, toasts, fetchLog, loading, viewer, apiVars>>
    /\ UNCHANGED uiVars
    /\ UNCHANGED wsVars

Merges ==
    /\ nEvents < MaxMerges
    /\ \E id \in MergeIds : \E e \in Incomings(id) : Merge(e)

SpecMerge == InitMerge /\ [][Merges]_vars

----------------------------------------------------------------------------
(* The axios instance on its own: calls, their answers, the refresh call's answer *)

ApiStatuses == {200, 401, 500}
RefreshOutcomes == {"token", "notoken", "fail"}

Call == \E r \in ReqIds : ApiCall(r)

Answer == \E r \in ReqIds : \E status \in ApiStatuses : ApiAnswer(r, status)

Refreshed == \E r \in ReqIds : \E outcome \in RefreshOutcomes : RefreshDone(r, outcome)

NextApi == Call \/ Answer \/ Refreshed

SpecApi == Init /\ [][NextApi]_vars

----------------------------------------------------------------------------
(* The page of a viewer who is not an admin while the service also holds   *)
(* and announces another user's orders                                     *)

OtherOrder(id, st) == [ServerOrder(id, st) EXCEPT !.user_id = "u2"]
OtherPaid == Payload("u2", Arr(<<"Pizza">>), JsNum(12), "paid", "paid", Undef)

ViewerLists ==
    { None, Some(<<ServerOrder("O1", "pending"), OtherOrder("O2", "paid")>>) }

ViewerAnswers(id) == {None, Some(ServerOrder(id, "paid")), Some(OtherOrder(id, "paid"))}

ViewerLoad == \E resp \in ViewerLists : FetchOrdersDone(resp)

ViewerEvent ==
    /\ nEvents < MaxViewerEvents
    /\ \E raw \in WsRawTypes, id \in OrderIds, p \in {IdOnly, FullPaid, OtherPaid} :
          WsMessage(raw, id, p)

ViewerResume ==
    \E h \in inflight : \E resp \in ViewerAnswers(h.orderId) : WsFetchDone(h, resp)

ViewerCreate ==
    /\ nEvents < MaxViewerEvents
    /\ \E posted \in BOOLEAN :
          NeverCreated("O2") /\ SubmitCreate([user_id |-> "u1", items |-> <<"Burger">>], "O2", posted)

NextViewer == ViewerLoad \/ Open \/ ViewerEvent \/ ViewerResume \/ ViewerCreate

SpecViewer == Init /\ [][NextViewer]_vars

----------------------------------------------------------------------------
(* Properties *)

\* prev.find((o) => o.id === id), for an id in the list
Find(list, id) == list[CHOOSE i \in DOMAIN list : list[i].id = id /\ \A j \in DOMAIN list : list[j].id = id => i <= j]

\* the step just taken ended a socket handler
WsDone(l) == l.op = "ws.done"

\* the payload gave the handler no data of its own and the point fetch none either
NoFetchedData(l) == l.fetch \in {"none", "failed"}

\* C1: status monotonicity. Whenever a socket handler finishes, the stored status
\* rank (pending < paid < assigned < delivered) of every order that stays in the
\* store is at least what it was before the handler's merge.
C1_StatusMonotone ==
    [][ WsDone(last') =>
          \A id \in Ids(orders) \cap Ids(orders') :
              statusRank(Find(orders', id).status) >= statusRank(Find(orders, id).status) ]_vars

\* C2: no destructive partial merge of items. When a socket handler finishes for a
\* stored order with a non-empty items list, and the payload had no items field or
\* an empty list, and the point fetch was throttled out or failed, the stored items
\* list is unchanged.
C2_ItemsKept ==
    [][ ( /\ WsDone(last')
          /\ NoFetchedData(last')
          /\ ~(last'.payload.items.isArray /\ Len(last'.payload.items.arr) > 0)
          /\ last'.id \in Ids(orders) \cap Ids(orders')
          /\ Find(orders, last'.id).items.isArray
          /\ Len(Find(orders, last'.id).items.arr) > 0 )
        => Find(orders', last'.id).items = Find(orders, last'.id).items ]_vars

\* C3: no phantom order. When a socket handler finishes for an order id that is not
\* in the store, with a partial payload and a point fetch that failed or was
\* throttled out, the store is what it was: no row for that id is created.
C3_NoPhantom ==
    [][ ( /\ WsDone(last')
          /\ NoFetchedData(last')
          /\ missingData(last'.payload)
          /\ last'.id \notin Ids(orders) )
        => orders' = orders ]_vars

\* C4: deletion wins over a late resolution. When a handler that was suspended in
\* its point fetch finishes, and an order.deleted event for the same order was
\* processed while it was suspended (and nothing else put the order back), the
\* store has no entry for that order.
C4_DeletionWins ==
    (WsDone(last) /\ last.wasDeleted) => last.id \notin Ids(orders)

\* C5: when the handler of an order.deleted event finishes for an order that is in
\* the store, that order is gone from the store and every other order is left as it
\* was, in its place, whatever the order's status and whatever the point fetch gave.
C5_DeletedRemoves ==
    [][ ( /\ WsDone(last')
          /\ last'.eventType = "order.deleted"
          /\ last'.id \in Ids(orders) )
        => /\ last'.id \notin Ids(orders')
           /\ orders' = SelectSeq(orders, LAMBDA o : o.id # last'.id) ]_vars

\* C5 witness: an order.deleted handler whose point fetch failed has finished for an
\* order that was in the store, and another order is still there.
C5_Witness ==
    /\ WsDone(last)
    /\ last.eventType = "order.deleted"
    /\ last.present
    /\ last.fetch = "failed"
    /\ orders # <<>>

\* the sessionStorage key of the pushDedupToast call made by the step just taken
CallKey(l) ==
    IF l.op = "create" THEN createdKey(l.id) ELSE toastKey(l.id, l.eventType)

IsCall(l) == l.op = "create" \/ (WsDone(l) /\ l.eventType \in ToastKinds)

\* C6: notification dedup window. A pushDedupToast call for a key emits the
\* notification when none was emitted for the key before; it emits nothing when the
\* last notification emitted for the key is less than 6000 ms old; it emits when
\* that notification is more than 6000 ms old.
C6_DedupWindow ==
    [][ IsCall(last') =>
          LET key == CallKey(last')
              emits == Count(toasts', key) = Count(toasts, key) + 1
              silent == Count(toasts', key) = Count(toasts, key)
          IN  /\ key \notin DOMAIN toasts => emits
              /\ (key \in DOMAIN toasts /\ now - toasts[key].lastAt < DEDUP_TTL_MS) => silent
              /\ (key \in DOMAIN toasts /\ now - toasts[key].lastAt > DEDUP_TTL_MS) => emits ]_vars

\* C6 witness: a key whose notification was emitted, emitted again once the window
\* had passed, and then suppressed by the call just made.
C6_Witness ==
    /\ IsCall(last)
    /\ ~last.emitted
    /\ Count(toasts, CallKey(last)) = 2

\* C7: one notification per logical transition. The creation notification of
\* handleSubmit and that of the order.created socket event for the same order are
\* never both emitted within one dedup window.
C7_OneCreationToast ==
    \A id \in OrderIds :
        LET k1 == createdKey(id)
            k2 == toastKey(id, "order.created")
        IN  (k1 \in DOMAIN toasts /\ k2 \in DOMAIN toasts) =>
               \/ toasts[k1].lastAt - toasts[k2].lastAt >= DEDUP_TTL_MS
               \/ toasts[k2].lastAt - toasts[k1].lastAt >= DEDUP_TTL_MS

\* C8: fetch throttle. Any two point fetches issued by the socket handler for the
\* same order id are more than FETCH_THROTTLE_MS apart.
C8_FetchThrottle ==
    \A e1, e2 \in fetchLog :
        (e1.id = e2.id /\ e1.at < e2.at) => e2.at - e1.at > FETCH_THROTTLE_MS

\* C8 witness: two point fetches for the same order, issued at different times, are
\* in flight together.
C8_Witness ==
    \E h1, h2 \in inflight : h1.orderId = h2.orderId /\ h1.at < h2.at

\* C9: no corrupted total. Every order in the store has a finite number as total.
C9_TotalFinite ==
    \A i \in DOMAIN orders : orders[i].total.t = "number"

\* C10: driver assignment is sticky. Whenever a socket handler finishes, every order
\* that had a driver_id and stays in the store still has a driver_id.
C10_DriverSticky ==
    [][ WsDone(last') =>
          \A id \in Ids(orders) \cap Ids(orders') :
              hasValue(Find(orders, id).driver_id) => hasValue(Find(orders', id).driver_id) ]_vars

\* C11: merge idempotence. For the store of every reachable state and every incoming
\* partial order e the socket handler can build, merging e twice gives the store that
\* merging e once gives, in the content of every order and in the order of the list.
C11_MergeIdempotent ==
    \A id \in OrderIds : \A e \in Incomings(id) :
        upsertOrderPure(upsertOrderPure(orders, e), e) = upsertOrderPure(orders, e)

\* the entries of the list for one order id
Only(list, id) == SelectSeq(list, LAMBDA o : o.id = id)

\* what the point fetch of the handler that just finished can have given it
FullOrders(l) ==
    IF l.fetch = "ok" THEN {fetchSingleOrder(r) : r \in ServerAnswers(l.id) \ {None}}
    ELSE {None}

\* C12: independence of disjoint orders. A socket handler that finishes for order A
\* leaves the stored record of every other order as it was, and the record of A it
\* leaves is the one the same handler gives on a store that holds A's record alone;
\* a handler that is dropped or suspended changes no record. So the record of each
\* order after any interleaving is the one its own events give in isolation.
C12_DisjointIndependent ==
    [][ /\ last'.op \in {"ws.drop", "ws.await"} => orders' = orders
        /\ WsDone(last') =>
             \A id \in OrderIds :
                IF id = last'.id
                THEN \E full \in FullOrders(last') :
                        Only(orders', id) =
                          onmessageStore(Only(orders, id), last'.eventType, id, last'.payload, full)
                ELSE Only(orders', id) = Only(orders, id) ]_vars

\* C12 witness: a handler for one order has finished with fetched data while a
\* handler for the other order is suspended, both orders being in the store.
C12_Witness ==
    /\ WsDone(last)
    /\ last.fetch = "ok"
    /\ \E h \in inflight : h.orderId # last.id
    /\ Ids(orders) = OrderIds

NoDuplicateIds(list) == \A i, j \in DOMAIN list : list[i].id = list[j].id => i = j

\* C13: identity uniqueness. No two entries of the store have the same id, after any
\* sequence of collection fetch, socket events, create, edit and delete; and a socket
\* handler, a create response and an edit response for an order change no entry of
\* another id, so that all of them update the one entry of their order.
C13_IdentityUnique ==
    [][ /\ NoDuplicateIds(orders')
        /\ last'.op \in {"ws.done", "create", "edit"} =>
              \A id \in OrderIds \ {last'.id} : Only(orders', id) = Only(orders, id) ]_vars

\* C13 witness: an edit response has been applied to an order that a socket event
\* had updated before, next to another order in the store.
C13_Witness ==
    /\ last.op = "edit"
    /\ toastKey(last.id, "order.updated") \in DOMAIN toasts
    /\ last.id \in Ids(orders)
    /\ Len(orders) = 2

\* C14: unknown event kinds are inert. When the handler of a socket message whose
\* kind is none of the eight recognized kinds, and which carries an order id,
\* finishes, the store is what it was and no notification has been emitted.
C14_UnknownInert ==
    [][ (WsDone(last') /\ last'.eventType \notin ToastKinds)
        => (orders' = orders /\ toasts' = toasts) ]_vars

\* C15: when the handler of a driver.pending or driver.failed event finishes for an
\* order in the store, the order is still there with the status it had before.
C15_DriverNoteKeepsStatus ==
    [][ ( /\ WsDone(last')
          /\ last'.eventType \in {"driver.pending", "driver.failed"}
          /\ last'.id \in Ids(orders) )
        => /\ last'.id \in Ids(orders')
           /\ Find(orders', last'.id).status = Find(orders, last'.id).status ]_vars

\* the status an event kind drives the order to
kindStatus(eventType) ==
    CASE eventType = "payment.completed" -> "paid"
      [] eventType = "driver.assigned" -> "assigned"
      [] eventType = "delivery.completed" -> "delivered"

\* C16: status transitions are driven by event kind. When the handler of a
\* payment.completed, driver.assigned or delivery.completed event finishes for an
\* order in the store, the stored status has rank at least paid, assigned or
\* delivered respectively, whatever the payload carried.
C16_KindDrivesStatus ==
    [][ ( /\ WsDone(last')
          /\ last'.eventType \in {"payment.completed", "driver.assigned", "delivery.completed"}
          /\ last'.id \in Ids(orders) )
        => /\ last'.id \in Ids(orders')
           /\ statusRank(Find(orders', last'.id).status)
                >= statusRank(kindStatus(last'.eventType)) ]_vars

\* C17: resynchronization on reconnect. Every time the socket is open again after a
\* close, a collection fetch has been issued for that connection: by the time the
\* k-th socket is open, fetchOrders has been called at least k times.
C17_ResyncOnReconnect ==
    socket = "open" => fetchOrdersCalls >= connects

\* the notification of a failed user action
failureKey(op) ==
    CASE op = "create.failed" -> "error:create"
      [] op = "edit.failed" -> "error:update"
      [] op = "delete.failed" -> "error:delete"

FailedOps == {"create.failed", "edit.failed", "delete.failed"}

\* C18: failed user actions are visible and harmless. The step in which the server
\* call of a create, edit or delete fails leaves the store as it was, emits the
\* action's failure notification once and no other notification, and issues no
\* request; sending the request changes neither the store nor the notifications;
\* and a request is only ever issued by the user's submit or delete.
C18_FailureHarmless ==
    [][ /\ last'.op \in FailedOps =>
             /\ orders' = orders
             /\ \A k \in DOMAIN toasts' :
                   Count(toasts', k) =
                     Count(toasts, k) + (IF k = failureKey(last'.op) THEN 1 ELSE 0)
             /\ Count(toasts', failureKey(last'.op)) = Count(toasts, failureKey(last'.op)) + 1
             /\ calls' \subseteq calls
        /\ last'.op \in {"edit.sent", "delete.sent"} => (orders' = orders /\ toasts' = toasts)
        /\ ~(calls' \subseteq calls) => last'.op \in {"edit.sent", "delete.sent"} ]_vars

\* C18 witness: a delete has just failed for an order that is still in the store,
\* after an edit of an order had failed too.
C18_Witness ==
    /\ last.op = "delete.failed"
    /\ last.id \in Ids(orders)
    /\ Count(toasts, "error:update") = 1
    /\ Count(toasts, "error:delete") = 1

\* C19: orders leave the store only by deletion. Whenever a step takes an order out
\* of the store, the step is the end of an order.deleted handler for that order or
\* the server's confirmation of the user's delete of that order; in particular it is
\* not the answer of the collection fetch.
C19_OnlyDeletionRemoves ==
    [][ \A id \in Ids(orders) \ Ids(orders') :
           \/ WsDone(last') /\ last'.eventType = "order.deleted" /\ last'.id = id
           \/ last'.op = "delete" /\ last'.id = id ]_vars

\* C20: single merge path for REST results. Applying the response of an edit or the
\* answer of the collection fetch lowers the stored status rank of no order that
\* stays in the store.
C20_RestKeepsStatus ==
    [][ last'.op \in {"edit", "load", "load.failed"} =>
          \A id \in Ids(orders) \cap Ids(orders') :
              statusRank(Find(orders', id).status) >= statusRank(Find(orders, id).status) ]_vars

\* C21: owner immutability. Whenever a socket handler finishes or an edit response
\* is applied, every order that was in the store and stays in it has the user_id it
\* had before.
C21_OwnerImmutable ==
    [][ last'.op \in {"ws.done", "edit"} =>
          \A id \in Ids(orders) \cap Ids(orders') :
              Find(orders', id).user_id = Find(orders, id).user_id ]_vars

\* C22: list ordering policy of upsertOrderPure. Merging an incoming order whose
\* id is in the list gives a list with the same ids in the same positions; merging
\* one whose id is new gives the new order at index 0 followed by the previous list
\* as it was.
C22_OrderingPolicy ==
    [][ last'.op = "merge" =>
          IF last'.id \in Ids(orders)
          THEN /\ Len(orders') = Len(orders)
               /\ \A i \in DOMAIN orders : orders'[i].id = orders[i].id
          ELSE /\ orders' # <<>>
               /\ Head(orders').id = last'.id
               /\ Tail(orders') = orders ]_vars

\* C22 witness: a merge has just put a new order in front of two orders that were
\* in the list.
C22_Witness ==
    /\ last.op = "merge"
    /\ ~last.present
    /\ Len(orders) = 3
    /\ orders[1].id = last.id

\* C23: status merge is commutative. For every order in the store and any two
\* incoming orders e1, e2 for it that carry statuses, merging e1 then e2 leaves the
\* same stored status as merging e2 then e1.
C23_StatusCommutes ==
    \A id \in Ids(orders) : \A e1, e2 \in Incomings(id) :
        (hasValue(e1.status) /\ hasValue(e2.status)) =>
            Find(upsertOrderPure(upsertOrderPure(orders, e1), e2), id).status
              = Find(upsertOrderPure(upsertOrderPure(orders, e2), e1), id).status

\* C24: no head-of-line blocking. While the handler of an event for order A is
\* suspended in its point fetch and the socket can still deliver, an event for any
\* other order B can be handled and merged into the store at once, with A's handler
\* still suspended.
C24_NoHeadOfLine ==
    \A h \in inflight :
        (nEvents < MaxEvents /\ socket = "open") =>
            \A b \in OrderIds \ {h.orderId} :
                ENABLED ( /\ Receive
                          /\ WsDone(last')
                          /\ last'.id = b
                          /\ b \in Ids(orders')
                          /\ h \in inflight' )

\* C24 witness: an event for one order has been merged into the store while the
\* handler of an earlier event for the other order is suspended in its fetch.
C24_Witness ==
    /\ WsDone(last)
    /\ last.fetch = "none"
    /\ last.id \in Ids(orders)
    /\ \E h \in inflight : h.orderId # last.id /\ h.orderId \notin Ids(orders)

\* C25: derived awaiting-driver flag. After every merge, the merged order's
\* assigning flag is true exactly when its stored status is paid and its stored
\* driver_id is absent.
C25_AssigningDerived ==
    [][ last'.op = "merge" =>
          LET o == Find(orders', last'.id)
          IN  o.assigning <=> (o.status = "paid" /\ ~Truthy(o.driver_id)) ]_vars

\* a payload with a non-empty user_id, a non-empty items list and a numeric total
selfSufficient(payload) ==
    /\ Truthy(payload.user_id)
    /\ payload.items.isArray /\ Len(payload.items.arr) > 0
    /\ payload.total.t = "number"

\* C26: resolver decision. A socket message that is not dropped issues a point fetch
\* exactly when its payload is not self-sufficient and the throttle lets the fetch
\* through.
C26_ResolverDecision ==
    [][ (nEvents' = nEvents + 1 /\ last'.op \in {"ws.await", "ws.done"}) =>
          ( last'.op = "ws.await"
            <=> ( /\ ~selfSufficient(last'.payload)
                  /\ now - lastFetchOf(lastFetchMs, last'.id) > FETCH_THROTTLE_MS ) ) ]_vars

\* C27: socket lifecycle. A socket is constructed only by the reconnect timer, when
\* the current socket is closed, the page is mounted and the timer is due, so at most
\* one socket is connecting or open; every close while the page is mounted arms one
\* timer for 3 s later, and an armed timer is eventually run or cleared; once the
\* cleanup has set isStopped, no socket is constructed and no timer is armed.
C27_SocketLifecycle ==
    /\ [][ /\ connects' # connects =>
                /\ connects' = connects + 1
                /\ socket = "closed"
                /\ ~isStopped
                /\ reconnectTimer # None
                /\ now >= The(reconnectTimer)
                /\ reconnectTimer' = None
           /\ socket' \in {"connecting", "open"} /\ socket' # socket =>
                \/ socket = "closed" /\ socket' = "connecting" /\ connects' = connects + 1
                \/ socket = "connecting" /\ socket' = "open"
           /\ (last'.op = "ws.close" /\ ~isStopped) =>
                (reconnectTimer = None /\ reconnectTimer' = Some(now + RECONNECT_MS))
           /\ isStopped =>
                (isStopped' /\ connects' = connects /\ reconnectTimer' = None) ]_vars
    /\ [](reconnectTimer # None => <>(reconnectTimer = None))

\* C27 witness: the page was unmounted while its second socket was open, and that
\* socket's close has come afterwards.
C27_Witness ==
    /\ isStopped
    /\ connects = 2
    /\ last.op = "ws.close"
    /\ socket = "closed"
    /\ reconnectTimer = None

\* C28: the token-refresh queue drains. Whenever no refresh is in flight, failedQueue
\* is empty and no request is still waiting for a refresh: every request queued during
\* a refresh was retried or rejected when that refresh ended, whatever its outcome.
C28_QueueDrains ==
    ~isRefreshing =>
        /\ failedQueue = <<>>
        /\ \A r \in ReqIds : requests[r].state # "queued"

\* C29: viewer isolation. For a viewer who is not an admin, every order in the store
\* has user_id equal to the viewer's id, whatever was fetched, announced or submitted.
C29_ViewerIsolation ==
    ~viewer.isAdmin => \A i \in DOMAIN orders : orders[i].user_id = viewer.sub

\* C30: edit is closed for late-stage orders. No PUT is sent for an order whose stored
\* status is assigned or delivered at the moment of the submit, also when the form was
\* opened earlier and socket events advanced the order in between.
C30_NoLateEdit ==
    [][ (last'.op = "edit.sent" /\ calls' # calls) =>
          ~( /\ last'.id \in Ids(orders)
             /\ Find(orders, last'.id).status \in {"assigned", "delivered"} ) ]_vars

====
